---- MODULE Spec2Model ----
(* Model of webpack.config.js: one run of the configuration script, from   *)
(* reading the process environment to the value left in module.exports.    *)
EXTENDS Integers, Sequences, FiniteSets, TLC

VARIABLES env, env0, git, pc, TARGET, VERSION, gitCalls, common, exported, overlays, files

vars == <<env, env0, git, pc, TARGET, VERSION, gitCalls, common, exported, overlays, files>>

(* ---------------------------------------------------------------------- *)
(* Bounds                                                                  *)
(* ---------------------------------------------------------------------- *)
MaxLen == 1

Alphabet == {"a", "b"}

(* ---------------------------------------------------------------------- *)
(* JavaScript strings are sequences of characters; a value that may be     *)
(* undefined is a record with a "def" flag.                                *)
(* ---------------------------------------------------------------------- *)
Undefined == [def |-> FALSE, val |-> <<>>]

Str(s) == [def |-> TRUE, val |-> s]

Truthy(x) == x.def /\ x.val # <<>>

DEV == <<"d", "e", "v">>

BUILD == <<"b", "u", "i", "l", "d">>

START == <<"s", "t", "a", "r", "t">>

TEST == <<"t", "e", "s", "t">>

UNKNOWN == <<"u", "n", "k", "n", "o", "w", "n">>

UNDEFINED_TEXT == <<"u", "n", "d", "e", "f", "i", "n", "e", "d">>

(* the output of `git rev-parse HEAD` in a repository: a hash and a newline *)
LongHash == <<"a", "b", "c", "d", "e", "f", "1", "2", "3", "4", "5", "6", "7", "8", "9", "0", "\n">>

ShortStrings == UNION {[1..n -> Alphabet] : n \in 0..MaxLen}

Strings == ShortStrings \cup {LongHash}

EnvValues == {Undefined} \cup {Str(s) : s \in Strings}

TargetValues == {Undefined, Str(<<>>), Str(DEV), Str(BUILD), Str(START), Str(TEST)}

BabelEnvValues == {Undefined, Str(DEV)}

NodeEnvValues == {Undefined, Str(<<"p">>)}

GitOutcomes == {[ok |-> FALSE, out |-> <<>>]} \cup {[ok |-> TRUE, out |-> s] : s \in Strings}

Min(a, b) == IF a < b THEN a ELSE b

(* String.prototype.substring(from, to), 0-based, end exclusive *)
Substring(s, from, to) == SubSeq(s, Min(from, Len(s)) + 1, Min(to, Len(s)))

PrefixLen == 7

VersionPrefixTail(v) == Substring(v, PrefixLen, Len(v))

VersionPrefix(v) == Substring(v, 0, PrefixLen)

(* assigning to process.env stores the string form of the value *)
EnvString(x) == IF x.def THEN x ELSE Str(UNDEFINED_TEXT)

(* ---------------------------------------------------------------------- *)
(* Configuration values: tagged strings, arrays, plain objects and opaque  *)
(* leaves (regular expressions, plugin instances, booleans).               *)
(* ---------------------------------------------------------------------- *)
S(s) == [t |-> "str", v |-> s]

Arr(q) == [t |-> "arr", v |-> q]

Obj(r) == [t |-> "obj", v |-> r]

Regex(s) == [t |-> "regex", v |-> s]

Bool(b) == [t |-> "bool", v |-> b]

Plugin(name) == [t |-> "plugin", v |-> name]

VersionedPlugin(name, version) == [t |-> "plugin", v |-> name, version |-> version]

EmptyObject == Obj([k \in {} |-> Undefined])

(* webpack-merge: arrays are concatenated, plain objects are merged key by *)
(* key, anything else is taken from the overlay.                           *)
RECURSIVE joinArrays(_, _)
joinArrays(a, b) ==
    IF a.t = "arr" /\ b.t = "arr" THEN Arr(a.v \o b.v)
    ELSE IF a.t = "obj" /\ b.t = "obj"
         THEN Obj([k \in (DOMAIN a.v) \cup (DOMAIN b.v) |->
                     IF k \notin DOMAIN b.v THEN a.v[k]
                     ELSE IF k \notin DOMAIN a.v THEN b.v[k]
                     ELSE joinArrays(a.v[k], b.v[k])])
         ELSE b

merge(a, b) == joinArrays(joinArrays(EmptyObject, a), b)

(* ---------------------------------------------------------------------- *)
(* The configuration literals                                              *)
(* ---------------------------------------------------------------------- *)
CommonLoaders ==
    <<Obj([test |-> Regex("\\.jsx?$"),
           loaders |-> Arr(<<S("babel?cacheDirectory"), S("unlazy")>>),
           include |-> S("PATHS.app")]),
      Obj([test |-> Regex("\\.(ttf|eot|svg|woff(2)?)(\\?v=.+)?$"),
           loaders |-> Arr(<<S("file?name=fonts/[name].[ext]")>>),
           include |-> Arr(<<S("node_modules/font-awesome/fonts/"),
                             S("node_modules/katex/dist/fonts/")>>)]),
      Obj([test |-> Regex("\\.(ttf|eot|svg|woff(2)?)(\\?[a-z0-9]+)?$"),
           loaders |-> Arr(<<S("file?name=[path][name].[ext]&context=./app")>>),
           include |-> S("PATHS.app")]),
      Obj([test |-> Regex("\\.json$"),
           loaders |-> Arr(<<S("file?name=[path][name].[ext]&context=./node_modules")>>)]),
      Obj([test |-> Regex("\\.png$"),
           loaders |-> Arr(<<S("file?name=[path][name].[ext]&context=./node_modules")>>),
           include |-> S("node_modules/emojione/")])>>

CommonPlugins(version) ==
    <<VersionedPlugin("HtmlWebpackPlugin", VersionPrefix(version)),
      VersionedPlugin("OfflinePlugin", VersionPrefix(version))>>

Common(version) ==
    Obj([entry |-> Obj([app |-> S("PATHS.app")]),
         resolve |-> Obj([extensions |-> Arr(<<S(""), S(".js"), S(".jsx")>>)]),
         output |-> Obj([path |-> S("PATHS.build"), filename |-> S("[name].js")]),
         module |-> Obj([noParse |-> Arr(<<Regex("autoit\\.js$")>>),
                         preLoaders |-> Arr(<<Obj([test |-> Regex("\\.jsx?$"),
                                                   loaders |-> Arr(<<S("eslint")>>),
                                                   include |-> S("PATHS.app")])>>),
                         loaders |-> Arr(CommonLoaders)]),
         postcss |-> Arr(<<Plugin("autoprefixer")>>),
         node |-> Obj([fs |-> S("empty")]),
         plugins |-> Arr(CommonPlugins(version))])

DevEntry ==
    <<S("react-hot-loader/patch"),
      S("webpack-dev-server/client?http://localhost:4000"),
      S("webpack/hot/only-dev-server"),
      S("PATHS.app")>>

DevLoaders ==
    <<Obj([test |-> Regex("\\.s?css$"),
           loaders |-> Arr(<<S("style"), S("css"), S("postcss"), S("sass")>>)])>>

DevPlugins == <<Plugin("HotModuleReplacementPlugin")>>

DevOverlay ==
    Obj([devtool |-> S("eval-source-map"),
         entry |-> Arr(DevEntry),
         module |-> Obj([loaders |-> Arr(DevLoaders)]),
         plugins |-> Arr(DevPlugins)])

ProdLoaders ==
    <<Obj([test |-> Regex("\\.(css|scss)$"),
           loader |-> S("ExtractTextPlugin.extract(style, css?{discardComments:{removeAll:true}}!postcss!sass)")])>>

ProdPlugins ==
    <<Plugin("CleanPlugin"),
      Plugin("DefinePlugin"),
      Plugin("DedupePlugin"),
      Plugin("OccurrenceOrderPlugin"),
      Plugin("UglifyJsPlugin"),
      Plugin("ExtractTextPlugin"),
      Plugin("WebpackRobots")>>

ProdOutput(filename) ==
    Obj([path |-> S("PATHS.build"),
         filename |-> S(filename),
         chunkFilename |-> S("[chunkhash].js")])

ProdOverlayPlainName ==
    Obj([debug |-> Bool(FALSE),
         devtool |-> S("source-map"),
         output |-> ProdOutput("[name].js"),
         module |-> Obj([loaders |-> Arr(ProdLoaders)]),
         plugins |-> Arr(ProdPlugins)])

ProdOverlay ==
    Obj([debug |-> Bool(FALSE),
         devtool |-> S("source-map"),
         output |-> ProdOutput("[name].[chunkhash].js"),
         module |-> Obj([loaders |-> Arr(ProdLoaders)]),
         plugins |-> Arr(ProdPlugins)])

(* ---------------------------------------------------------------------- *)
(* The decisions of the script                                             *)
(* ---------------------------------------------------------------------- *)
OverrideValueShaFirst(a, b) == IF Truthy(b) THEN b ELSE a

(* SOURCE_VERSION || SHA, when one of them is truthy *)
OverrideValue(a, b) == IF Truthy(a) THEN a ELSE b

NeedsGitIgnoringSha(a, b) == ~Truthy(a)

NeedsGitAlways(a, b) == TRUE

(* the third operand of || is evaluated only when the first two are falsy *)
NeedsGit(a, b) == ~Truthy(a) /\ ~Truthy(b)

OnExecThrowPropagate == [pc |-> "crashed", v |-> Undefined]

(* catch (e) { v = 'unknown'; } *)
OnExecThrow == [pc |-> "l38", v |-> Str(UNKNOWN)]

EnvAfterBabelNodeEnv(e, t) == [e EXCEPT !.NODE_ENV = EnvString(t)]

(* process.env.BABEL_ENV = TARGET *)
EnvAfterBabel(e, t) == [e EXCEPT !.BABEL_ENV = EnvString(t)]

DevConditionAlways(t) == TRUE

DevConditionStrict(t) == t = Str(DEV)

(* TARGET === 'dev' || !TARGET *)
DevCondition(t) == t = Str(DEV) \/ ~Truthy(t)

(* TARGET === 'build' *)
BuildCondition(t) == t = Str(BUILD)

DevExportSwapped(c) == merge(DevOverlay, c)

DevExport(c) == merge(c, DevOverlay)

BuildExport(c) == merge(c, ProdOverlay)

(* ---------------------------------------------------------------------- *)
(* State machine                                                           *)
(* ---------------------------------------------------------------------- *)
Init ==
    /\ env \in [npm_lifecycle_event : TargetValues,
                SOURCE_VERSION : EnvValues,
                SHA : EnvValues,
                BABEL_ENV : BabelEnvValues,
                NODE_ENV : NodeEnvValues]
    /\ env0 = env
    /\ git \in GitOutcomes
    /\ pc = "l18"
    /\ TARGET = Undefined
    /\ VERSION = Undefined
    /\ gitCalls = 0
    /\ common = EmptyObject
    /\ exported = EmptyObject
    /\ overlays = <<>>
    /\ files = {}

(* const TARGET = process.env.npm_lifecycle_event *)
ReadTarget ==
    /\ pc = "l18"
    /\ TARGET' = env.npm_lifecycle_event
    /\ pc' = "l24"
    /\ UNCHANGED <<env, env0, git, VERSION, gitCalls, common, exported, overlays, files>>

(* v = process.env.SOURCE_VERSION || process.env.SHA || ... *)
EvalOverrides ==
    /\ pc = "l24"
    /\ IF NeedsGit(env.SOURCE_VERSION, env.SHA)
       THEN /\ pc' = "exec"
            /\ UNCHANGED VERSION
       ELSE /\ pc' = "l38"
            /\ VERSION' = OverrideValue(env.SOURCE_VERSION, env.SHA)
    /\ UNCHANGED <<env, env0, git, TARGET, gitCalls, common, exported, overlays, files>>

(* childProcess.execSync('git rev-parse HEAD').toString() returns *)
ExecGitReturns ==
    /\ pc = "exec"
    /\ git.ok
    /\ gitCalls' = gitCalls + 1
    /\ VERSION' = Str(git.out)
    /\ pc' = "l38"
    /\ UNCHANGED <<env, env0, git, TARGET, common, exported, overlays, files>>

(* childProcess.execSync throws *)
ExecGitThrows ==
    /\ pc = "exec"
    /\ ~git.ok
    /\ gitCalls' = gitCalls + 1
    /\ VERSION' = OnExecThrow.v
    /\ pc' = OnExecThrow.pc
    /\ UNCHANGED <<env, env0, git, TARGET, common, exported, overlays, files>>

SetBabelEnv ==
    /\ pc = "l38"
    /\ env' = EnvAfterBabel(env, TARGET)
    /\ pc' = "l41"
    /\ UNCHANGED <<env0, git, TARGET, VERSION, gitCalls, common, exported, overlays, files>>

BuildCommon ==
    /\ pc = "l41"
    /\ common' = Common(VERSION.val)
    /\ pc' = "l156"
    /\ UNCHANGED <<env, env0, git, TARGET, VERSION, gitCalls, exported, overlays, files>>

DevBranch ==
    /\ pc = "l156"
    /\ IF DevCondition(TARGET)
       THEN /\ exported' = DevExport(common)
            /\ overlays' = Append(overlays, "development")
       ELSE UNCHANGED <<exported, overlays, files>>
    /\ pc' = "l182"
    /\ UNCHANGED <<env, env0, git, TARGET, VERSION, gitCalls, common, files>>

BuildBranch ==
    /\ pc = "l182"
    /\ IF BuildCondition(TARGET)
       THEN /\ exported' = BuildExport(common)
            /\ overlays' = Append(overlays, "production")
       ELSE UNCHANGED <<exported, overlays, files>>
    /\ pc' = "done"
    /\ UNCHANGED <<env, env0, git, TARGET, VERSION, gitCalls, common, files>>

Next ==
    \/ ReadTarget
    \/ EvalOverrides
    \/ ExecGitReturns
    \/ ExecGitThrows
    \/ SetBabelEnv
    \/ BuildCommon
    \/ DevBranch
    \/ BuildBranch

Spec == Init /\ [][Next]_vars

TypeOK ==
    /\ pc \in {"l18", "l24", "exec", "l38", "l41", "l156", "l182", "done", "crashed"}
    /\ gitCalls \in 0..2
    /\ Len(overlays) \in 0..2

(* ---------------------------------------------------------------------- *)
(* Properties                                                              *)
(* ---------------------------------------------------------------------- *)
AfterVersion == pc \in {"l38", "l41", "l156", "l182", "done"}

AfterCommon == pc \in {"l156", "l182", "done"}

A0 == env0.SOURCE_VERSION

B0 == env0.SHA

C2_SetOverrideAWins == (AfterVersion /\ A0.def) => VERSION = A0

(* C2 amended: whenever SOURCE_VERSION is set to a non-empty value, the    *)
(* computed version is exactly that value, whatever SHA and git are.       *)
C2_NonEmptyOverrideAWins == (AfterVersion /\ Truthy(A0)) => VERSION = A0

C2_Witness ==
    /\ pc = "done"
    /\ Truthy(A0) /\ Truthy(B0) /\ A0 # B0
    /\ git.ok /\ git.out # A0.val
    /\ VERSION = A0

(* C3 as stated: whenever SOURCE_VERSION is unset and SHA is set, even to  *)
(* the empty string, the computed version is the value of SHA.             *)
C3_SetOverrideBWins == (AfterVersion /\ ~A0.def /\ B0.def) => VERSION = B0

(* C3 amended: whenever SOURCE_VERSION is unset and SHA is set to a        *)
(* non-empty value, the computed version is exactly the value of SHA.      *)
C3_NonEmptyOverrideBWins == (AfterVersion /\ ~A0.def /\ Truthy(B0)) => VERSION = B0

C3_Witness ==
    /\ pc = "done"
    /\ ~A0.def /\ Truthy(B0)
    /\ git.ok /\ git.out # B0.val
    /\ VERSION = B0

(* C4: with neither override set and a failing git call, the failure is    *)
(* caught, the version is "unknown" and the script goes on to its export.  *)
C4_GitFailureCaught ==
    (~A0.def /\ ~B0.def /\ ~git.ok) =>
        /\ pc # "crashed"
        /\ (AfterVersion => VERSION = Str(UNKNOWN))
        /\ (pc = "done" /\ overlays # <<>> =>
                /\ "plugins" \in DOMAIN exported.v
                /\ exported.v.plugins.v[1].version = UNKNOWN)

C4_Witness ==
    /\ pc = "done"
    /\ ~A0.def /\ ~B0.def /\ ~git.ok
    /\ gitCalls = 1
    /\ overlays = <<"production">>

EmptyGitOutput == ~Truthy(A0) /\ ~Truthy(B0) /\ git.ok /\ git.out = <<>>

(* C5 as stated: the computed version, and the 7-character prefix handed   *)
(* to the HTML and offline plugins, are never empty.                       *)
C5_VersionNeverEmpty ==
    /\ (AfterVersion => VERSION.val # <<>>)
    /\ (AfterCommon => \A i \in 1..2 : common.v.plugins.v[i].version # <<>>)

(* C5 amended: the version and the prefix handed to the plugins are        *)
(* non-empty except when both overrides are unset or empty and the git     *)
(* call succeeds with empty output; then both are the empty string.        *)
C5_VersionEmptyOnlyOnEmptyGitOutput ==
    /\ (AfterVersion => (VERSION.def /\ (VERSION.val = <<>> <=> EmptyGitOutput)))
    /\ (AfterCommon =>
            \A i \in 1..2 : (common.v.plugins.v[i].version = <<>> <=> EmptyGitOutput))

C5_Witness ==
    /\ pc = "done"
    /\ ~EmptyGitOutput
    /\ Len(VERSION.val) = 1
    /\ Len(common.v.plugins.v[2].version) = 1

(* C6: with target 'dev' and with target unset the export is the same      *)
(* configuration: entry is the three hot-reload entries followed by the    *)
(* application entry (base entry count plus 3) and devtool is              *)
(* 'eval-source-map'.                                                      *)
C6_DevAndUnsetAlike ==
    (pc = "done" /\ TARGET \in {Str(DEV), Undefined}) =>
        /\ {"entry", "devtool"} \subseteq DOMAIN exported.v
        /\ exported.v.entry.t = "arr"
        /\ Len(exported.v.entry.v) = Cardinality(DOMAIN common.v.entry.v) + 3
        /\ exported.v.entry.v = <<S("react-hot-loader/patch"),
                                  S("webpack-dev-server/client?http://localhost:4000"),
                                  S("webpack/hot/only-dev-server"),
                                  common.v.entry.v.app>>
        /\ exported.v.devtool = S("eval-source-map")
        /\ exported = merge(Common(VERSION.val), DevOverlay)

C6_Witness ==
    /\ pc = "done"
    /\ TARGET = Undefined
    /\ "entry" \in DOMAIN exported.v
    /\ Len(exported.v.entry.v) = 4

(* C7: with target 'build' the output filename is '[name].[chunkhash].js'  *)
(* in place of the base '[name].js', and the plugin list is the base's 2   *)
(* plugins followed by every plugin of the production overlay.             *)
C7_BuildOutputAndPlugins ==
    (pc = "done" /\ TARGET = Str(BUILD)) =>
        /\ {"output", "plugins"} \subseteq DOMAIN exported.v
        /\ common.v.output.v.filename = S("[name].js")
        /\ exported.v.output.v.filename = S("[name].[chunkhash].js")
        /\ Len(common.v.plugins.v) = 2
        /\ Len(exported.v.plugins.v) > Len(common.v.plugins.v)
        /\ Len(exported.v.plugins.v) = 2 + 7
        /\ SubSeq(exported.v.plugins.v, 1, 2) = common.v.plugins.v
        /\ SubSeq(exported.v.plugins.v, 3, 9) =
               <<Plugin("CleanPlugin"), Plugin("DefinePlugin"), Plugin("DedupePlugin"),
                 Plugin("OccurrenceOrderPlugin"), Plugin("UglifyJsPlugin"),
                 Plugin("ExtractTextPlugin"), Plugin("WebpackRobots")>>

C7_Witness ==
    /\ pc = "done"
    /\ TARGET = Str(BUILD)
    /\ "plugins" \in DOMAIN exported.v
    /\ Len(exported.v.plugins.v) = 9

ListsOf(o) == [loaders |-> o.v.module.v.loaders.v, plugins |-> o.v.plugins.v]

(* C8: for both overlays the merged loaders list is the base's rules in    *)
(* order followed by the overlay's rules in order, and likewise for the    *)
(* plugin list.                                                            *)
C8_ListsConcatenated ==
    (pc = "done" /\ overlays # <<>>) =>
        /\ {"module", "plugins"} \subseteq DOMAIN exported.v
        /\ LET o == IF overlays = <<"development">> THEN DevOverlay ELSE ProdOverlay
           IN  /\ ListsOf(exported).loaders = ListsOf(common).loaders \o ListsOf(o).loaders
               /\ ListsOf(exported).plugins = ListsOf(common).plugins \o ListsOf(o).plugins
               /\ Len(ListsOf(exported).loaders) = 5 + 1
               /\ Len(ListsOf(exported).plugins) = 2 + Len(ListsOf(o).plugins)

C8_Witness ==
    /\ pc = "done"
    /\ overlays = <<"development">>
    /\ Len(exported.v.module.v.loaders.v) = 6
    /\ Len(exported.v.plugins.v) = 3

(* C9 as stated: after the run the process environment equals the          *)
(* environment before it, and no file is written.                          *)
C9_EnvironmentUntouched == pc = "done" => (env = env0 /\ files = {})

(* C9 amended: the run changes the environment in exactly one place,       *)
(* BABEL_ENV, which is set to the target mode (the text 'undefined' when   *)
(* the mode is unset); every other variable is unchanged and no file is    *)
(* written.                                                                *)
C9_OnlyBabelEnvSet ==
    /\ files = {}
    /\ (pc \in {"l18", "l24", "exec", "l38"} => env = env0)
    /\ (pc \in {"l41", "l156", "l182", "done"} =>
            env = [env0 EXCEPT !.BABEL_ENV =
                      IF env0.npm_lifecycle_event.def
                      THEN env0.npm_lifecycle_event
                      ELSE Str(UNDEFINED_TEXT)])

C9_Witness ==
    /\ pc = "done"
    /\ env0.BABEL_ENV = Undefined
    /\ env.BABEL_ENV = Str(BUILD)
    /\ env.NODE_ENV = env0.NODE_ENV

(* C10: the git subprocess is started at most once, only when both         *)
(* overrides are unset or empty, and never again after a failure.          *)
C10_GitStartedAtMostOnce ==
    /\ gitCalls <= 1
    /\ (gitCalls = 1 => ~Truthy(A0) /\ ~Truthy(B0))
    /\ ((Truthy(A0) \/ Truthy(B0)) => gitCalls = 0 /\ pc # "exec")
    /\ ((AfterVersion /\ Truthy(A0)) => VERSION = A0)
    /\ ((AfterVersion /\ ~Truthy(A0) /\ Truthy(B0)) => VERSION = B0)
    /\ ((pc = "done" /\ ~Truthy(A0) /\ ~Truthy(B0)) => gitCalls = 1)

C10_Witness ==
    /\ pc = "done"
    /\ Truthy(B0) /\ ~Truthy(A0)
    /\ ~git.ok
    /\ gitCalls = 0
    /\ VERSION = B0

====
